---- MODULE Spec2Model ----
(***************************************************************************)
(* The Proxy Control Core of porter (crate `proxy`): the ProxyManager      *)
(* handle, the actor task it spawns, the Proxy listener tasks and the      *)
(* close-channel watcher tasks, as a state machine.                        *)
(*                                                                         *)
(* Tasks are tokio tasks.  A step of the model is what a task does between *)
(* two suspension points.  JoinHandle::abort() stops a task from running   *)
(* any further code; the task's future (and what it owns: a bound socket,  *)
(* the actor's maps) is dropped by the runtime in a later step.            *)
(***************************************************************************)
EXTENDS Integers, Sequences, FiniteSets, TLC

\* Number of handle method calls (proxy_ready / create_proxy / delete_proxy)
\* made over the life of the handle.
MaxCalls == 3
\* Number of distinct local ports the calls choose from.
NumPorts == 2
\* Capacity of the request queue: mpsc::channel::<Request>(8).
QueueCap == 8
\* Number of calls of the readiness methods (wait_for_ready / ready).
MaxWaiters == 2
\* Number of client connections made to the port of a listening Proxy.
MaxConns == 2
\* Largest number of registered entries the handle is dropped with.
MaxEntries == 9

Calls == 1..MaxCalls
Ports == 1..NumPorts
Waiters == 1..MaxWaiters
Conns == 1..MaxConns

\* One-shot reply channels.  Call k owns channel k for its own request; a
\* create_proxy call k owns channel Cleanup(k) for the delete_proxy it issues
\* on failure.  0 stands for "no reply channel" (None).
Cleanup(k) == MaxCalls + k
Chans == 1..(2 * MaxCalls)
NoChan == 0

\* types.rs: enum Request
ProxyStatus(port, res) == [type |-> "ProxyStatus", port |-> port, reply |-> res]
CreateProxy(port, res) == [type |-> "CreateProxy", port |-> port, reply |-> res]
DeleteProxy(port, res) == [type |-> "DeleteProxy", port |-> port, reply |-> res]
Terminate == [type |-> "Terminate", port |-> 0, reply |-> NoChan]

VARIABLES
    queue,        \* the mpsc request queue (FIFO)
    closed,       \* the receive side is closed (receiver.close() or dropped)
    proxy_map,    \* port -> id of the Proxy registered for it, 0 when absent
    watcher_map,  \* port -> id of the watcher task registered for it, 0 when absent
    terminating,  \* the actor's terminating flag
    ready,        \* the value of the readiness watch cell
    actor,        \* "init", "loop", "term", "exited", "cancelled", "panicked"
    termTodo,     \* ports the Terminate handler has still to post a delete for
    actorAbort,   \* daemon.abort() has been called
    sent,         \* per reply channel, what its sender did: "none", a reply, or "closed"
    callOp,       \* per call: "none", "status", "create", "delete"
    callPort,     \* per call: its port argument (0 before the call)
    pc,           \* per call: "idle", "wait", "del_wait", "done"
    result,       \* per call: what it returned to its caller
    seen,         \* per call: what the actor found when it processed the call's request
    listener,     \* per Proxy: state of its listener task
    closeSig,     \* per Proxy: its one-shot close channel: "none", "sent", "closed"
    watcher,      \* per Proxy: state of its watcher task
    dropPc,       \* the handle: "alive", "sending", "watching", "returned"
    waitOp,       \* per readiness call: "none", "wait_for_ready", "ready"
    waitPc,       \* per readiness call: "idle", "waiting", "done"
    waitSaw,      \* per readiness call: the value of the cell when it returned
                  \*   ("none" before; "gone": changed() failed)
    lpc,          \* per Proxy: where its accept loop stands: "accept", "connect", "relay"
    cur,          \* per Proxy: the connection its accept loop is serving (0: none)
    conn,         \* per connection: "none", "backlog", "accepted", "relaying",
                  \*   "refused", "closed_ok", "closed_err", "dropped"
    l2r,          \* per connection: its local_to_remote future
    r2l           \* per connection: its remote_to_local future

coreVars == <<queue, closed, proxy_map, watcher_map, terminating, ready, actor,
              termTodo, actorAbort, sent, callOp, callPort, pc, result, seen,
              listener, closeSig, watcher, dropPc>>
waitVars == <<waitOp, waitPc, waitSaw>>
relayVars == <<lpc, cur, conn, l2r, r2l>>

vars == <<coreVars, waitVars, relayVars>>

actorVars == <<closed, proxy_map, watcher_map, terminating, ready, actor, termTodo>>
callVars == <<callOp, callPort, pc, result>>
taskVars == <<listener, closeSig, watcher>>

\* Mutant: the readiness cell is created holding true.
InitialReadyTrue == TRUE

\* The value the readiness cell is created with: watch::channel(false).
InitialReady == FALSE

\* ProxyManager::new: the state when the constructor returns.
Init ==
    /\ queue = <<>>
    /\ closed = FALSE
    /\ proxy_map = [p \in Ports |-> 0]
    /\ watcher_map = [p \in Ports |-> 0]
    /\ terminating = FALSE
    /\ ready = InitialReady
    /\ actor = "init"
    /\ termTodo = {}
    /\ actorAbort = FALSE
    /\ sent = [c \in Chans |-> "none"]
    /\ callOp = [k \in Calls |-> "none"]
    /\ callPort = [k \in Calls |-> 0]
    /\ pc = [k \in Calls |-> "idle"]
    /\ result = [k \in Calls |-> "none"]
    /\ seen = [k \in Calls |-> "none"]
    /\ listener = [k \in Calls |-> "none"]
    /\ closeSig = [k \in Calls |-> "none"]
    /\ watcher = [k \in Calls |-> "none"]
    /\ dropPc = "alive"
    /\ waitOp = [w \in Waiters |-> "none"]
    /\ waitPc = [w \in Waiters |-> "idle"]
    /\ waitSaw = [w \in Waiters |-> "none"]
    /\ lpc = [k \in Calls |-> "accept"]
    /\ cur = [k \in Calls |-> 0]
    /\ conn = [c \in Conns |-> "none"]
    /\ l2r = [c \in Conns |-> "idle"]
    /\ r2l = [c \in Conns |-> "idle"]

(***************************************************************************)
(* Helpers                                                                 *)
(***************************************************************************)

\* HashMap::contains_key
ContainsKey(map, port) == map[port] # 0

\* Mutant: the key is not removed.
RemoveForgotten(map, port) == map

\* Mutant: every key is removed.
RemoveAll(map, port) == [p \in DOMAIN map |-> 0]

\* HashMap::insert / HashMap::remove
Insert(map, port, id) == [map EXCEPT ![port] = id]
Remove(map, port) == [map EXCEPT ![port] = 0]

\* JoinHandle::abort() on a listener task.  A task that has not bound yet is
\* gone at once; one that holds a bound socket keeps it until the runtime
\* drops its future ("aborting"); a finished task is not affected.
AbortListener(s) ==
    CASE s = "spawned" -> "aborted"
      [] s = "listening" -> "aborting"
      [] OTHER -> s

\* JoinHandle::abort() on a watcher task: it runs in one piece, so it is
\* either still to run or finished.
AbortWatcher(s) == IF s = "spawned" THEN "aborted" ELSE s

\* Drop for Proxy, for the entry registered under `port` (if any).
DropProxy(lst, map, port) ==
    [k \in DOMAIN lst |-> IF map[port] = k THEN AbortListener(lst[k]) ELSE lst[k]]

\* Dropping the whole proxy_map drops every entry.
DropAllProxies(lst, map) ==
    [k \in DOMAIN lst |->
        IF \E p \in DOMAIN map : map[p] = k THEN AbortListener(lst[k]) ELSE lst[k]]

\* oneshot::Sender::send: the value is delivered; a sender that is dropped
\* without a send leaves the channel closed.
SendReply(s, c, v) == IF c = NoChan THEN s ELSE [s EXCEPT ![c] = v]

\* Dropping the requests still queued drops the reply senders they carry.
DropQueued(s, q) ==
    [c \in DOMAIN s |->
        IF s[c] = "none" /\ \E i \in 1..Len(q) : q[i].reply = c
        THEN "closed" ELSE s[c]]

\* The receiver of call k's own reply channel is alive while the call is in
\* wait_for_response; it is dropped when the call returns.
ReceiverAlive(c) == c \in Calls /\ pc[c] = "wait"

\* The error messages of ProxyManager.
PROXY_NOT_READY == "proxy not ready"
PROXY_ALREADY_STARTED == "proxy already started"
MANAGER_TERMINATING == "proxy manager is terminating"

\* Mutant: the Terminate handler leaves the flag as it is.
SetTerminatingForgotten == terminating

\* The value the Terminate handler assigns to `terminating`.
SetTerminating == TRUE

\* Record, for a call's own request, what the actor found when it processed
\* the request: "terminating" (CreateProxy refused for that reason), or whether
\* the port was registered ("present") or not ("absent").
NoteSeen(c, found) ==
    seen' = IF c \in Calls THEN [seen EXCEPT ![c] = found] ELSE seen

Found(map, port) == IF ContainsKey(map, port) THEN "present" ELSE "absent"

\* The actor task ends abnormally (its future is dropped by an abort, or it
\* panics): its locals are dropped.  Dropping proxy_map aborts every listener,
\* dropping watcher_map detaches the watchers, dropping the receiver closes
\* the queue and drops what is queued.
ActorDies(how) ==
    /\ actor' = how
    /\ closed' = TRUE
    /\ queue' = <<>>
    /\ sent' = DropQueued(sent, queue)
    /\ listener' = DropAllProxies(listener, proxy_map)
    /\ proxy_map' = [p \in DOMAIN proxy_map |-> 0]
    /\ watcher_map' = [p \in DOMAIN watcher_map |-> 0]
    /\ termTodo' = {}
    /\ UNCHANGED <<waitVars, relayVars, terminating, ready, actorAbort, callVars, seen, closeSig,
                   watcher, dropPc>>

(***************************************************************************)
(* The actor task (ProxyManager::new, the spawned daemon)                  *)
(***************************************************************************)

\* ready_sender.send(true).unwrap(), then the loop is entered.  The send
\* fails, and the unwrap panics, once the handle's watch receiver is gone.
ActorStart ==
    /\ actor = "init"
    /\ IF dropPc = "returned"
       THEN ActorDies("panicked")
       ELSE /\ ready' = TRUE
            /\ actor' = "loop"
            /\ UNCHANGED <<waitVars, relayVars, queue, closed, proxy_map, watcher_map, terminating,
                           termTodo, actorAbort, sent, callVars, seen, taskVars,
                           dropPc>>

\* Request::ProxyStatus(port, res)
ActorProxyStatus ==
    /\ actor = "loop"
    /\ queue # <<>>
    /\ Head(queue).type = "ProxyStatus"
    /\ LET req == Head(queue) IN
        /\ queue' = Tail(queue)
        /\ sent' = SendReply(sent, req.reply,
                             IF ContainsKey(proxy_map, req.port)
                             THEN "ok" ELSE PROXY_NOT_READY)
        /\ NoteSeen(req.reply, Found(proxy_map, req.port))
    /\ UNCHANGED <<waitVars, relayVars, actorVars, actorAbort, callVars, taskVars, dropPc>>

\* Request::CreateProxy { host, port, remote_addr, response_channel }
ActorCreateProxy ==
    /\ actor = "loop"
    /\ queue # <<>>
    /\ Head(queue).type = "CreateProxy"
    /\ LET req == Head(queue)
           id == req.reply
       IN
        IF terminating
        THEN \* send(Err(MANAGER_TERMINATING)).unwrap(); continue
             IF ReceiverAlive(req.reply)
             THEN /\ queue' = Tail(queue)
                  /\ sent' = SendReply(sent, req.reply, MANAGER_TERMINATING)
                  /\ NoteSeen(req.reply, "terminating")
                  /\ UNCHANGED <<waitVars, relayVars, actorVars, actorAbort, callVars, taskVars, dropPc>>
             ELSE ActorDies("panicked")
        ELSE IF ContainsKey(proxy_map, req.port)
        THEN \* send(Err(PROXY_ALREADY_STARTED)).ok()
             /\ queue' = Tail(queue)
             /\ sent' = SendReply(sent, req.reply, PROXY_ALREADY_STARTED)
             /\ NoteSeen(req.reply, "present")
             /\ UNCHANGED <<waitVars, relayVars, actorVars, actorAbort, callVars, taskVars, dropPc>>
        ELSE \* insert the Proxy and its watcher; response_channel is dropped
             \* at the end of the arm without a send
             /\ queue' = Tail(queue)
             /\ proxy_map' = Insert(proxy_map, req.port, id)
             /\ watcher_map' = Insert(watcher_map, req.port, id)
             /\ listener' = [listener EXCEPT ![id] = "spawned"]
             /\ watcher' = [watcher EXCEPT ![id] = "spawned"]
             /\ sent' = SendReply(sent, req.reply, "closed")
             /\ NoteSeen(req.reply, "absent")
             /\ UNCHANGED <<waitVars, relayVars, closed, terminating, ready, actor, termTodo,
                            actorAbort, callVars, closeSig, dropPc>>

\* Request::DeleteProxy(port, response_maybe)
ActorDeleteProxy ==
    /\ actor = "loop"
    /\ queue # <<>>
    /\ Head(queue).type = "DeleteProxy"
    /\ LET req == Head(queue) IN
        /\ queue' = Tail(queue)
        /\ proxy_map' = Remove(proxy_map, req.port)
        /\ listener' = DropProxy(listener, proxy_map, req.port)
        /\ watcher_map' = Remove(watcher_map, req.port)
        /\ watcher' = [k \in DOMAIN watcher |->
                          IF watcher_map[req.port] = k
                          THEN AbortWatcher(watcher[k]) ELSE watcher[k]]
        /\ sent' = SendReply(sent, req.reply, "ok")
        /\ NoteSeen(req.reply, Found(proxy_map, req.port))
    /\ UNCHANGED <<waitVars, relayVars, closed, terminating, ready, actor, termTodo, actorAbort,
                   callVars, closeSig, dropPc>>

\* Mutant: the Terminate handler visits no entry.
KeysSkipped(map) == {}

\* The keys `for (port, _) in &proxy_map` visits.
Keys(map) == {p \in DOMAIN map : ContainsKey(map, p)}

\* Request::Terminate: set the flag and start posting a DeleteProxy per entry.
ActorTerminate ==
    /\ actor = "loop"
    /\ queue # <<>>
    /\ Head(queue).type = "Terminate"
    /\ queue' = Tail(queue)
    /\ terminating' = SetTerminating
    /\ termTodo' = Keys(proxy_map)
    /\ actor' = "term"
    /\ UNCHANGED <<waitVars, relayVars, closed, proxy_map, watcher_map, ready, actorAbort, sent,
                   callVars, seen, taskVars, dropPc>>

\* One iteration of `for (port, _) in &proxy_map`, for the entry `p`: the
\* send suspends while the queue is full.
ActorTerminatePost(p) ==
    /\ actor = "term"
    /\ Len(queue) < QueueCap
    /\ p \in termTodo
    /\ queue' = Append(queue, DeleteProxy(p, NoChan))
    /\ termTodo' = termTodo \ {p}
    /\ UNCHANGED <<waitVars, relayVars, closed, proxy_map, watcher_map, terminating, ready, actor,
                   actorAbort, sent, callVars, seen, taskVars, dropPc>>

\* receiver.close() once every entry has been posted.
ActorTerminateClose ==
    /\ actor = "term"
    /\ termTodo = {}
    /\ closed' = TRUE
    /\ actor' = "loop"
    /\ UNCHANGED <<waitVars, relayVars, queue, proxy_map, watcher_map, terminating, ready, termTodo,
                   actorAbort, sent, callVars, seen, taskVars, dropPc>>

\* recv() returns None (closed and drained): ready_sender.send(false).unwrap()
\* and the task ends, dropping its locals.
ActorExit ==
    /\ actor = "loop"
    /\ queue = <<>>
    /\ closed
    /\ IF dropPc = "returned"
       THEN ActorDies("panicked")
       ELSE /\ ready' = FALSE
            /\ actor' = "exited"
            /\ listener' = DropAllProxies(listener, proxy_map)
            /\ proxy_map' = [p \in DOMAIN proxy_map |-> 0]
            /\ watcher_map' = [p \in DOMAIN watcher_map |-> 0]
            /\ UNCHANGED <<waitVars, relayVars, queue, closed, terminating, termTodo, actorAbort,
                           sent, callVars, seen, closeSig, watcher, dropPc>>

\* The runtime drops the aborted actor task.
ActorCancel ==
    /\ actorAbort
    /\ actor \in {"init", "loop", "term"}
    /\ ActorDies("cancelled")

(***************************************************************************)
(* The handle's methods (ProxyManager::proxy_ready, create_proxy,          *)
(* delete_proxy)                                                           *)
(***************************************************************************)

\* oneshot::Receiver::try_recv: the value if one was sent, Closed if the
\* sender was dropped without sending, Empty if nothing has happened yet.
TryRecv(c) ==
    CASE sent[c] = "none" -> "Empty"
      [] sent[c] = "closed" -> "Closed"
      [] OTHER -> sent[c]

\* tokio::time::timeout polls the inner future before it looks at the
\* deadline: a future that is ready on its first poll is never timed out.
TimeoutPoll(innerReady, inner, late) ==
    IF innerReady THEN inner ELSE IF late THEN "Elapsed" ELSE "Pending"

\* wait_for_response: the inner future is `async move { receiver.try_recv() }`,
\* which is ready at once.
WaitForResponse(c, late) == TimeoutPoll(TRUE, TryRecv(c), late)

\* proxy_ready: `if let Ok(Ok(_)) = ... { true } else { false }`
ProxyReadyResult(r) == IF r = "ok" THEN "true" ELSE "false"

\* delete_proxy: `Ok(self.wait_for_response(res_receiver).await??)`
DeleteResult(r) == IF r = "ok" THEN "Ok" ELSE r

\* create_proxy: an error of wait_for_response is returned by `?`.
CreateReturnsEarly(r) == r \in {"Empty", "Closed", "Elapsed"}

\* No method call is in progress (Drop needs the handle exclusively).
NoCallInProgress ==
    /\ \A k \in DOMAIN pc : pc[k] \in {"idle", "done"}
    /\ \A w \in Waiters : waitPc[w] # "waiting"

\* Calls are numbered in the order they are made.
PreviousCallsMade(k) == \A j \in Calls : j < k => pc[j] # "idle"

\* Ports are interchangeable: the callers use port p+1 only after port p.
PortsUsedInOrder(port) ==
    \A q \in Ports : q < port => \E j \in Calls : callPort[j] = q

\* A method is called and posts its request (send_request).  The send
\* suspends while the queue is full and panics if the queue is closed.
Call(k, op, port) ==
    /\ pc[k] = "idle"
    /\ dropPc = "alive"
    /\ PreviousCallsMade(k)
    /\ PortsUsedInOrder(port)
    /\ callOp' = [callOp EXCEPT ![k] = op]
    /\ callPort' = [callPort EXCEPT ![k] = port]
    /\ IF closed
       THEN /\ pc' = [pc EXCEPT ![k] = "done"]
            /\ result' = [result EXCEPT ![k] = "panic"]
            /\ UNCHANGED queue
       ELSE /\ Len(queue) < QueueCap
            /\ queue' = Append(queue,
                    CASE op = "status" -> ProxyStatus(port, k)
                      [] op = "create" -> CreateProxy(port, k)
                      [] op = "delete" -> DeleteProxy(port, k))
            /\ pc' = [pc EXCEPT ![k] = "wait"]
            /\ UNCHANGED result
    /\ UNCHANGED <<waitVars, relayVars, actorVars, actorAbort, sent, seen, taskVars, dropPc>>

\* wait_for_response is polled and the method goes on with its result: it
\* returns, or (create_proxy, on an Err reply) calls delete_proxy(port).
\* `late`: REQUEST_TIMEOUT has passed by the time of the poll.
Return(k, late) ==
    /\ pc[k] = "wait"
    /\ LET r == WaitForResponse(k, late) IN
        CASE callOp[k] = "status" ->
                /\ result' = [result EXCEPT ![k] = ProxyReadyResult(r)]
                /\ pc' = [pc EXCEPT ![k] = "done"]
                /\ UNCHANGED queue
          [] callOp[k] = "delete" ->
                /\ result' = [result EXCEPT ![k] = DeleteResult(r)]
                /\ pc' = [pc EXCEPT ![k] = "done"]
                /\ UNCHANGED queue
          [] callOp[k] = "create" ->
                IF CreateReturnsEarly(r) \/ r = "ok"
                THEN /\ result' = [result EXCEPT ![k] = IF r = "ok" THEN "Ok" ELSE r]
                     /\ pc' = [pc EXCEPT ![k] = "done"]
                     /\ UNCHANGED queue
                ELSE \* Err(e) => { self.delete_proxy(port).await.ok(); Err(e) }
                     /\ result' = [result EXCEPT ![k] = r]
                     /\ IF closed
                        THEN /\ pc' = [pc EXCEPT ![k] = "done"]
                             /\ UNCHANGED queue
                        ELSE /\ Len(queue) < QueueCap
                             /\ queue' = Append(queue,
                                    DeleteProxy(callPort[k], Cleanup(k)))
                             /\ pc' = [pc EXCEPT ![k] = "del_wait"]
    /\ UNCHANGED <<waitVars, relayVars, actorVars, actorAbort, sent, callOp, callPort, seen,
                   taskVars, dropPc>>

\* The delete_proxy issued by create_proxy polls its own wait_for_response;
\* its result is discarded and create_proxy returns Err(e).
ReturnCleanup(k) ==
    /\ pc[k] = "del_wait"
    /\ pc' = [pc EXCEPT ![k] = "done"]
    /\ UNCHANGED <<waitVars, relayVars, queue, actorVars, actorAbort, sent, callOp, callPort, result,
                   seen, taskVars, dropPc>>

(***************************************************************************)
(* ProxyManager::ready and ProxyManager::wait_for_ready                    *)
(***************************************************************************)

\* Mutant: the first read of the cell is taken to be true.
ReadyNowAssumed == TRUE

\* `*receiver.borrow_and_update()` / `*receiver.borrow()`: the cell's value.
ReadyNow == ready

\* The actor task, which owns ready_sender, has ended.
SenderGone == actor \in {"exited", "cancelled", "panicked"}

\* receiver.changed() resolves: Ok once the cell holds a value the receiver
\* has not seen (the cell is written twice, true then false, and the receiver
\* has seen false), Err once the sender is gone with nothing unseen.
ChangedResolves == ready \/ SenderGone

\* The readiness calls are numbered in the order they are made.
PreviousWaitsMade(w) == \A v \in Waiters : v < w => waitPc[v] # "idle"

\* ready(): `*receiver.borrow()`, returned at once.
ReadyCall(w) ==
    /\ waitPc[w] = "idle"
    /\ dropPc = "alive"
    /\ PreviousWaitsMade(w)
    /\ waitOp' = [waitOp EXCEPT ![w] = "ready"]
    /\ waitPc' = [waitPc EXCEPT ![w] = "done"]
    /\ waitSaw' = [waitSaw EXCEPT ![w] = IF ready THEN "true" ELSE "false"]
    /\ UNCHANGED <<coreVars, relayVars>>

\* wait_for_ready is called: it clones the receiver and reads the cell; with
\* true it returns at once, otherwise it suspends in changed().  waitSaw
\* records the value the cell holds when the call returns.
WaitForReadyCall(w) ==
    /\ waitPc[w] = "idle"
    /\ dropPc = "alive"
    /\ PreviousWaitsMade(w)
    /\ waitOp' = [waitOp EXCEPT ![w] = "wait_for_ready"]
    /\ IF ReadyNow
       THEN /\ waitPc' = [waitPc EXCEPT ![w] = "done"]
            /\ waitSaw' = [waitSaw EXCEPT ![w] = IF ready THEN "true" ELSE "false"]
       ELSE /\ waitPc' = [waitPc EXCEPT ![w] = "waiting"]
            /\ UNCHANGED waitSaw
    /\ UNCHANGED <<coreVars, relayVars>>

\* `while let Ok(_) = receiver.changed().await { if ready { break } }`: the
\* loop ends when the value read is true, or when changed() fails.
WaitForReadyWake(w) ==
    /\ waitPc[w] = "waiting"
    /\ ChangedResolves
    /\ waitPc' = [waitPc EXCEPT ![w] = "done"]
    /\ waitSaw' = [waitSaw EXCEPT ![w] = IF ReadyNow THEN "true" ELSE "gone"]
    /\ UNCHANGED <<coreVars, relayVars, waitOp>>

(***************************************************************************)
(* The listener task of a Proxy (Proxy::new) and its watcher task          *)
(***************************************************************************)

\* TcpListener::bind(local_addr).await?: the OS accepts or refuses the bind.
\* On a refusal `?` ends the task; close_channel is dropped unsent.
ListenerBind(k, bound) ==
    /\ listener[k] = "spawned"
    /\ IF bound
       THEN /\ listener' = [listener EXCEPT ![k] = "listening"]
            /\ UNCHANGED closeSig
       ELSE /\ listener' = [listener EXCEPT ![k] = "bind_failed"]
            /\ closeSig' = [closeSig EXCEPT ![k] = "closed"]
    /\ UNCHANGED <<waitVars, relayVars, queue, actorVars, actorAbort, sent, callVars, seen, watcher,
                   dropPc>>

\* listener.accept() fails and the accept loop ends: close_channel.send(port).
\* The send fails once the watcher has dropped the receiver.
ListenerAcceptLoopExit(k) ==
    /\ listener[k] = "listening"
    /\ lpc[k] = "accept"
    /\ listener' = [listener EXCEPT ![k] = "exited"]
    /\ closeSig' = [closeSig EXCEPT ![k] =
                        IF watcher[k] = "spawned" THEN "sent" ELSE "closed"]
    /\ UNCHANGED <<waitVars, relayVars, queue, actorVars, actorAbort, sent, callVars, seen, watcher,
                   dropPc>>

\* The runtime drops the future of an aborted listener: its socket is closed.
ListenerReap(k) ==
    /\ listener[k] = "aborting"
    /\ listener' = [listener EXCEPT ![k] = "aborted"]
    /\ UNCHANGED <<waitVars, relayVars, queue, actorVars, actorAbort, sent, callVars, seen, closeSig,
                   watcher, dropPc>>

\* The port a Proxy was created for.
ProxyPort(k) == callPort[k]

\* The watcher: `if let Ok(port) = close_receiver.try_recv() { send(DeleteProxy
\* (port, None)).await.unwrap() }`, once; then it ends.
WatcherRun(k) ==
    /\ watcher[k] = "spawned"
    /\ IF closeSig[k] = "sent"
       THEN IF closed
            THEN /\ watcher' = [watcher EXCEPT ![k] = "panicked"]
                 /\ UNCHANGED queue
            ELSE /\ Len(queue) < QueueCap
                 /\ queue' = Append(queue, DeleteProxy(ProxyPort(k), NoChan))
                 /\ watcher' = [watcher EXCEPT ![k] = "done"]
       ELSE /\ watcher' = [watcher EXCEPT ![k] = "done"]
            /\ UNCHANGED queue
    /\ UNCHANGED <<waitVars, relayVars, actorVars, actorAbort, sent, callVars, seen, listener,
                   closeSig, dropPc>>

(***************************************************************************)
(* The accept loop of a listener task and the relay of a connection        *)
(***************************************************************************)

\* The Proxy whose port the client connections of the model are made to.
Gate == 1

\* The connections are numbered in the order the clients make them.
PreviousConnsMade(c) == \A d \in Conns : d < c => conn[d] # "none"

\* A client connects to the port: the OS completes the handshake on the
\* bound socket and queues the connection for accept().
ClientConnects(c) ==
    /\ conn[c] = "none"
    /\ PreviousConnsMade(c)
    /\ listener[Gate] = "listening"
    /\ conn' = [conn EXCEPT ![c] = "backlog"]
    /\ UNCHANGED <<coreVars, waitVars, lpc, cur, l2r, r2l>>

\* The connection accept() returns next: the oldest one queued.
NextQueued == {c \in Conns : conn[c] = "backlog"
                              /\ \A d \in Conns : conn[d] = "backlog" => c <= d}

\* The listener task is suspended in `listener.accept().await`.
InAccept(k) == listener[k] = "listening" /\ lpc[k] = "accept"

\* `listener.accept().await` returns Ok((inbound, _)): the loop body starts
\* with TcpStream::connect(remote_addr).
Accept(k) ==
    /\ k = Gate
    /\ InAccept(k)
    /\ \E c \in NextQueued :
        /\ conn' = [conn EXCEPT ![c] = "accepted"]
        /\ cur' = [cur EXCEPT ![k] = c]
    /\ lpc' = [lpc EXCEPT ![k] = "connect"]
    /\ UNCHANGED <<coreVars, waitVars, l2r, r2l>>

\* `TcpStream::connect(remote_addr).await` returns.  Ok: the two copy futures
\* are built and try_join! polls them.  Err: the body is skipped, inbound is
\* dropped and the loop goes back to accept().
ConnectOutbound(k, ok) ==
    /\ listener[k] = "listening"
    /\ lpc[k] = "connect"
    /\ IF ok
       THEN /\ conn' = [conn EXCEPT ![cur[k]] = "relaying"]
            /\ l2r' = [l2r EXCEPT ![cur[k]] = "copying"]
            /\ r2l' = [r2l EXCEPT ![cur[k]] = "copying"]
            /\ lpc' = [lpc EXCEPT ![k] = "relay"]
            /\ UNCHANGED cur
       ELSE /\ conn' = [conn EXCEPT ![cur[k]] = "refused"]
            /\ lpc' = [lpc EXCEPT ![k] = "accept"]
            /\ cur' = [cur EXCEPT ![k] = 0]
            /\ UNCHANGED <<l2r, r2l>>
    /\ UNCHANGED <<coreVars, waitVars>>

\* A directional future `async { io::copy(..).await?; w.shutdown().await }`
\* after the await it is suspended in returns: an Err ends it ("failed"), an
\* Ok of io::copy takes it to the shutdown, an Ok of shutdown ends it.
AwaitReturns(f, ok) ==
    IF ~ok THEN "failed" ELSE IF f = "copying" THEN "shutdown" ELSE "done"

\* tokio::try_join!(a, b): Err as soon as one future has returned Err, Ok
\* when both have returned Ok, pending otherwise.
TryJoin(a, b) ==
    IF a = "failed" \/ b = "failed" THEN "Err"
    ELSE IF a = "done" /\ b = "done" THEN "Ok"
    ELSE "Pending"

\* When try_join! returns, its futures are dropped: one that has not run to
\* its end is cancelled where it stands.
AfterJoin(f, joined) ==
    IF joined # "Pending" /\ f \in {"copying", "shutdown"} THEN "cancelled" ELSE f

Dirs == {"local_to_remote", "remote_to_local"}

\* Mutant: the result of try_join! is propagated with `?`, ending the task.
ListenerAfterRelayPropagated(s, joined) == IF joined = "Err" THEN "exited" ELSE s

\* `if let Err(_e) = tokio::try_join!(..) { println!(..) }`: the error is
\* printed and the listener task goes on.
ListenerAfterRelay(s, joined) == s

\* The await one of the two futures of the relay is suspended in returns,
\* and try_join! is polled.  When try_join! returns the connection is closed
\* (an Err is printed) and the loop goes back to accept().
RelayStep(k, dir, ok) ==
    /\ listener[k] = "listening"
    /\ lpc[k] = "relay"
    /\ LET c == cur[k]
           a == IF dir = "local_to_remote"
                THEN AwaitReturns(l2r[c], ok) ELSE l2r[c]
           b == IF dir = "remote_to_local"
                THEN AwaitReturns(r2l[c], ok) ELSE r2l[c]
           joined == TryJoin(a, b)
       IN
        /\ (IF dir = "local_to_remote" THEN l2r[c] ELSE r2l[c])
                \in {"copying", "shutdown"}
        /\ l2r' = [l2r EXCEPT ![c] = AfterJoin(a, joined)]
        /\ r2l' = [r2l EXCEPT ![c] = AfterJoin(b, joined)]
        /\ IF joined = "Pending"
           THEN UNCHANGED <<lpc, cur, conn>>
           ELSE /\ conn' = [conn EXCEPT ![c] =
                        IF joined = "Ok" THEN "closed_ok" ELSE "closed_err"]
                /\ lpc' = [lpc EXCEPT ![k] = "accept"]
                /\ cur' = [cur EXCEPT ![k] = 0]
        /\ listener' = [listener EXCEPT ![k] = ListenerAfterRelay(listener[k], joined)]
    /\ UNCHANGED <<queue, actorVars, actorAbort, sent, callVars, seen, closeSig,
                   watcher, dropPc, waitVars>>

(***************************************************************************)
(* Drop for ProxyManager                                                   *)
(***************************************************************************)

\* daemon.abort(), after which drop returns.
AbortDaemonAndReturn ==
    /\ actorAbort' = TRUE
    /\ dropPc' = "returned"

\* The handle is dropped: drop starts.
DropStart ==
    /\ dropPc = "alive"
    /\ NoCallInProgress
    /\ dropPc' = "sending"
    /\ UNCHANGED <<waitVars, relayVars, queue, actorVars, actorAbort, sent, callVars, seen, taskVars>>

\* `self.send_request(Request::Terminate).await;` and, in the same poll,
\* `let ready = *receiver.borrow_and_update(); if ready { ... }`: with
\* readiness false drop goes straight to the abort.
DropSendTerminate ==
    /\ dropPc = "sending"
    /\ ~closed
    /\ Len(queue) < QueueCap
    /\ queue' = Append(queue, Terminate)
    /\ IF ready
       THEN dropPc' = "watching" /\ UNCHANGED actorAbort
       ELSE AbortDaemonAndReturn
    /\ UNCHANGED <<waitVars, relayVars, actorVars, sent, callVars, seen, taskVars>>

\* receiver.changed() resolves with the value false, or fails because the
\* actor task (which owns ready_sender) has ended.
ReadyFalseOrSenderGone ==
    ~ready \/ actor \in {"exited", "cancelled", "panicked"}

\* `while let Ok(_) = receiver.changed().await { if !ready { break } }`: ends
\* when readiness is seen false, or when the watch sender is gone.
DropWatchEnd ==
    /\ dropPc = "watching"
    /\ ReadyFalseOrSenderGone
    /\ AbortDaemonAndReturn
    /\ UNCHANGED <<waitVars, relayVars, queue, actorVars, sent, callVars, seen, taskVars>>

\* Drop is suspended: in the send on a full queue, or in changed().
DropSuspended ==
    \/ dropPc = "sending" /\ Len(queue) >= QueueCap
    \/ dropPc = "watching"

\* The 3 s timeout around the body of drop fires while it is suspended.
DropTimeout ==
    /\ DropSuspended
    /\ AbortDaemonAndReturn
    /\ UNCHANGED <<waitVars, relayVars, queue, actorVars, sent, callVars, seen, taskVars>>

(***************************************************************************)
(* The specification                                                       *)
(***************************************************************************)

Ops == {"status", "create", "delete"}

Next ==
    \/ ActorStart
    \/ ActorProxyStatus
    \/ ActorCreateProxy
    \/ ActorDeleteProxy
    \/ ActorTerminate
    \/ \E p \in Ports : ActorTerminatePost(p)
    \/ ActorTerminateClose
    \/ ActorExit
    \/ ActorCancel
    \/ \E k \in Calls, op \in Ops, port \in Ports : Call(k, op, port)
    \/ \E k \in Calls, late \in BOOLEAN : Return(k, late)
    \/ \E k \in Calls : ReturnCleanup(k)
    \/ \E k \in Calls, bound \in BOOLEAN : ListenerBind(k, bound)
    \/ \E k \in Calls : ListenerAcceptLoopExit(k)
    \/ \E k \in Calls : ListenerReap(k)
    \/ \E k \in Calls : WatcherRun(k)
    \/ DropStart
    \/ DropSendTerminate
    \/ DropWatchEnd
    \/ DropTimeout

Spec == Init /\ [][Next]_vars

\* A handle that is used for its readiness methods only and then dropped.
\* The runtime schedules every task that can run: the actor task starts, and
\* a wait_for_ready whose changed() has resolved is resumed.  (The readiness
\* methods read the cell and write nothing, so Spec leaves them out.)
NextReady ==
    \/ ActorStart
    \/ ActorTerminate
    \/ ActorTerminateClose
    \/ ActorExit
    \/ ActorCancel
    \/ \E w \in Waiters : ReadyCall(w)
    \/ \E w \in Waiters : WaitForReadyCall(w)
    \/ \E w \in Waiters : WaitForReadyWake(w)
    \/ DropStart
    \/ DropSendTerminate
    \/ DropWatchEnd
    \/ DropTimeout

ReadySpec ==
    /\ Init
    /\ [][NextReady]_vars
    /\ WF_vars(ActorStart)
    /\ \A w \in Waiters : WF_vars(WaitForReadyWake(w))

\* A handle that is dropped with n entries registered.
Entries == 1..MaxEntries

\* The state after create_proxy has been called for the ports 1..n of a
\* running manager, one call after the other, each call has returned (Closed:
\* the actor inserted the entry and dropped the reply sender), each listener
\* has bound and each watcher has run and ended.  Entry p was made by call p.
InitTerm ==
    \E n \in 0..MaxEntries :
        /\ queue = <<>>
        /\ closed = FALSE
        /\ proxy_map = [p \in Entries |-> IF p <= n THEN p ELSE 0]
        /\ watcher_map = [p \in Entries |-> IF p <= n THEN p ELSE 0]
        /\ terminating = FALSE
        /\ ready = TRUE
        /\ actor = "loop"
        /\ termTodo = {}
        /\ actorAbort = FALSE
        /\ sent = [c \in Entries |-> IF c <= n THEN "closed" ELSE "none"]
        /\ callOp = [k \in Entries |-> IF k <= n THEN "create" ELSE "none"]
        /\ callPort = [k \in Entries |-> IF k <= n THEN k ELSE 0]
        /\ pc = [k \in Entries |-> IF k <= n THEN "done" ELSE "idle"]
        /\ result = [k \in Entries |-> IF k <= n THEN "Closed" ELSE "none"]
        /\ seen = [k \in Entries |-> IF k <= n THEN "absent" ELSE "none"]
        /\ listener = [k \in Entries |-> IF k <= n THEN "listening" ELSE "none"]
        /\ closeSig = [k \in Entries |-> "none"]
        /\ watcher = [k \in Entries |-> IF k <= n THEN "done" ELSE "none"]
        /\ dropPc = "alive"
        /\ waitOp = [w \in Waiters |-> "none"]
        /\ waitPc = [w \in Waiters |-> "idle"]
        /\ waitSaw = [w \in Waiters |-> "none"]
        /\ lpc = [k \in Entries |-> "accept"]
        /\ cur = [k \in Entries |-> 0]
        /\ conn = [c \in Conns |-> "none"]
        /\ l2r = [c \in Conns |-> "idle"]
        /\ r2l = [c \in Conns |-> "idle"]

\* The entry the iteration over proxy_map visits next.  The order of a
\* HashMap's iteration is fixed by its hasher; the entries of InitTerm are
\* interchangeable, so they are numbered in that order.
IterationNext(todo) == {p \in todo : \A q \in todo : p <= q}

NextTerm ==
    \/ DropStart
    \/ DropSendTerminate
    \/ ActorTerminate
    \/ \E p \in IterationNext(termTodo) : ActorTerminatePost(p)
    \/ ActorTerminateClose
    \/ ActorDeleteProxy
    \/ ActorExit
    \/ ActorCancel
    \/ \E k \in Entries : ListenerReap(k)
    \/ DropWatchEnd
    \/ DropTimeout

TermSpec == InitTerm /\ [][NextTerm]_vars

\* The state after create_proxy(host, 1, remote) on a running manager: the
\* actor has inserted the entry, the call has returned (Closed), the listener
\* has bound and the watcher has run and ended.
InitRelay ==
    /\ queue = <<>>
    /\ closed = FALSE
    /\ proxy_map = [p \in Ports |-> IF p = 1 THEN Gate ELSE 0]
    /\ watcher_map = [p \in Ports |-> IF p = 1 THEN Gate ELSE 0]
    /\ terminating = FALSE
    /\ ready = TRUE
    /\ actor = "loop"
    /\ termTodo = {}
    /\ actorAbort = FALSE
    /\ sent = [c \in Chans |-> IF c = Gate THEN "closed" ELSE "none"]
    /\ callOp = [k \in Calls |-> IF k = Gate THEN "create" ELSE "none"]
    /\ callPort = [k \in Calls |-> IF k = Gate THEN 1 ELSE 0]
    /\ pc = [k \in Calls |-> IF k = Gate THEN "done" ELSE "idle"]
    /\ result = [k \in Calls |-> IF k = Gate THEN "Closed" ELSE "none"]
    /\ seen = [k \in Calls |-> IF k = Gate THEN "absent" ELSE "none"]
    /\ listener = [k \in Calls |-> IF k = Gate THEN "listening" ELSE "none"]
    /\ closeSig = [k \in Calls |-> "none"]
    /\ watcher = [k \in Calls |-> IF k = Gate THEN "done" ELSE "none"]
    /\ dropPc = "alive"
    /\ waitOp = [w \in Waiters |-> "none"]
    /\ waitPc = [w \in Waiters |-> "idle"]
    /\ waitSaw = [w \in Waiters |-> "none"]
    /\ lpc = [k \in Calls |-> "accept"]
    /\ cur = [k \in Calls |-> 0]
    /\ conn = [c \in Conns |-> "none"]
    /\ l2r = [c \in Conns |-> "idle"]
    /\ r2l = [c \in Conns |-> "idle"]

\* Clients connect to the port of the registered Proxy; its listener task
\* accepts and relays.
NextRelay ==
    \/ \E c \in Conns : ClientConnects(c)
    \/ \E k \in Calls : Accept(k)
    \/ \E k \in Calls, ok \in BOOLEAN : ConnectOutbound(k, ok)
    \/ \E k \in Calls, dir \in Dirs, ok \in BOOLEAN : RelayStep(k, dir, ok)
    \/ \E k \in Calls : ListenerAcceptLoopExit(k)

RelaySpec == InitRelay /\ [][NextRelay]_vars

(***************************************************************************)
(* Properties                                                              *)
(***************************************************************************)

\* The delete_proxy(port) that create_proxy call k issues on failure has been
\* posted: its request is queued, or its reply channel has been answered or
\* dropped.
CleanupPosted(k) ==
    \/ \E i \in 1..Len(queue) : queue[i].reply = Cleanup(k)
    \/ sent[Cleanup(k)] # "none"

\* Call k's wait_for_response has returned.
Polled(k) == pc[k] \in {"del_wait", "done"}

\* C1: a create_proxy whose request the actor processes while it is not
\* terminating and the port is free gets the entry inserted, is answered Ok on
\* its reply channel, and returns Ok to its caller.
C1_CreateInsertsAndReturnsOk ==
    \A k \in Calls :
        (callOp[k] = "create" /\ seen[k] = "absent") =>
            /\ listener[k] # "none"
            /\ sent[k] = "ok"
            /\ (pc[k] = "done" => result[k] = "Ok")

\* C2: a create_proxy for a port that is already registered returns PortInUse,
\* posts no DeleteProxy for the port, and so leaves the original entry
\* registered.
C2_DoubleCreateRejected ==
    \A k \in Calls :
        (callOp[k] = "create" /\ seen[k] = "present") =>
            /\ ~CleanupPosted(k)
            /\ (pc[k] = "done" => result[k] = PROXY_ALREADY_STARTED)

\* C3: delete_proxy returns Ok to its caller whether the port was registered
\* or not (the actor is running whenever a call is made), and the port is not
\* registered once the actor has processed the request.
C3_DeleteIdempotent ==
    [][ /\ \A k \in Calls :
            (callOp[k] = "delete" /\ pc'[k] = "done") => result'[k] = "Ok"
        /\ (actor = "loop" /\ queue # <<>> /\ Head(queue).type = "DeleteProxy"
            /\ actor' = "loop" /\ queue' = Tail(queue))
                => ~ContainsKey(proxy_map', Head(queue).port) ]_vars

\* C4: proxy_ready returns true exactly when the port was registered at the
\* moment the actor processed its ProxyStatus request.
C4_ProxyReadyIffRegistered ==
    \A k \in Calls :
        (callOp[k] = "status" /\ pc[k] = "done" /\ seen[k] # "none") =>
            (result[k] = "true" <=> seen[k] = "present")

\* C5: a call returns a failure only when the actor's answer has arrived on
\* its reply channel (an Err reply, or the channel closed) or the 5 s timeout
\* has fired: never while the reply is still outstanding.
C5_WaitsForReplyOrDeadline ==
    \A k \in Calls :
        (Polled(k) /\ result[k] \notin {"Ok", "true", "Elapsed"}) =>
            sent[k] # "none"

\* C6: a create_proxy that fails with anything but PortInUse has posted a
\* DeleteProxy for its port before it returns, so that the port is not left
\* registered for it once the queue has drained.
C6_FailedCreateCleansUp ==
    \A k \in Calls :
        (callOp[k] = "create" /\ pc[k] = "done"
         /\ result[k] \notin {"Ok", PROXY_ALREADY_STARTED}) =>
            /\ CleanupPosted(k)
            /\ (queue = <<>> => proxy_map[callPort[k]] # k)

\* C7: a listener whose bind failed has sent its port on the close channel,
\* and once its watcher has run and the queue has drained its entry is no
\* longer registered.
C7_SelfHealOnBindFailure ==
    \A k \in Calls :
        listener[k] = "bind_failed" =>
            /\ closeSig[k] = "sent"
            /\ (watcher[k] # "spawned" /\ queue = <<>>)
                    => proxy_map[ProxyPort(k)] # k

\* C8: once drop has returned, no listener task of this handle is still to
\* run, running, or holding its bound socket.
C8_DropReleasesPorts ==
    dropPc = "returned" =>
        \A k \in Calls : listener[k] \notin {"spawned", "listening", "aborting"}

\* The actor is about to process a Terminate request.
AtTerminate == actor = "loop" /\ queue # <<>> /\ Head(queue).type = "Terminate"

\* C10: the terminating flag is set by the Terminate handler and by nothing
\* else, is never cleared, and once it is true no step adds a key to the map.
C10_TerminatingIsFinal ==
    [][ /\ terminating => terminating'
        /\ terminating =>
              \A p \in Ports : ContainsKey(proxy_map', p) => ContainsKey(proxy_map, p)
        /\ terminating' # terminating => AtTerminate
        /\ (AtTerminate /\ actor' = "term") => terminating' ]_vars

\* C10 witness: Terminate has been processed, the delete it posted for one
\* entry has been processed, and another entry is still registered.
C10_Witness ==
    /\ terminating
    /\ closed
    /\ \E k \in Calls : listener[k] \in {"aborting", "aborted"}
    /\ \E p \in Ports : ContainsKey(proxy_map, p)

\* C11: readiness is false until the actor enters its loop, changes to true
\* only at that moment (which happens at most once), changes back to false
\* only when the actor leaves its loop (after which the actor does nothing
\* more), and so never returns to true; an aborted or panicked actor changes
\* nothing.
C11_ReadinessMonotone ==
    [][ /\ (actor = "init" => ~ready) /\ (actor' = "init" => ~ready')
        /\ (~ready /\ ready') => (actor = "init" /\ actor' = "loop")
        /\ (ready /\ ~ready') => (actor = "loop" /\ actor' = "exited")
        /\ actor # "init" => actor' # "init"
        /\ actor \in {"exited", "cancelled", "panicked"} =>
              (actor' = actor /\ ready' = ready) ]_vars

\* C11 witness: readiness has been true and is false again.
C11_Witness == actor = "exited" /\ ~ready /\ terminating

\* Call j is a create_proxy for the port of delete_proxy call k, made after
\* call k, with no other create_proxy for that port made between the two.
CreateFollowsDelete(k, j) ==
    /\ k < j
    /\ callOp[k] = "delete"
    /\ callOp[j] = "create"
    /\ callPort[j] = callPort[k]
    /\ \A i \in Calls :
          (k < i /\ i < j) => ~(callOp[i] = "create" /\ callPort[i] = callPort[k])

\* C12: when delete_proxy(port) has returned Ok, the next create_proxy(port)
\* made after it does not find the port registered: it is not answered
\* PortInUse and does not return PortInUse.
C12_DeleteThenCreate ==
    \A k, j \in Calls :
        (CreateFollowsDelete(k, j) /\ pc[k] = "done" /\ result[k] = "Ok") =>
            /\ seen[j] # "present"
            /\ sent[j] # PROXY_ALREADY_STARTED
            /\ result[j] # PROXY_ALREADY_STARTED

\* C12 witness: the port was registered by a first create_proxy, a
\* delete_proxy for it returned Ok, and the actor has processed the
\* create_proxy that followed.
C12_Witness ==
    \E i, k, j \in Calls :
        /\ i < k
        /\ callOp[i] = "create" /\ callPort[i] = callPort[k] /\ seen[i] = "absent"
        /\ CreateFollowsDelete(k, j) /\ pc[k] = "done" /\ result[k] = "Ok"
        /\ seen[k] = "present"
        /\ seen[j] = "absent"

\* No request is queued and no call is in progress.
Drained == queue = <<>> /\ \A k \in Calls : pc[k] \in {"idle", "done"}

\* The create_proxy calls for port p that returned Ok, less the delete_proxy
\* calls for port p that returned Ok.
NetOk(p) ==
    Cardinality({k \in Calls : callOp[k] = "create" /\ callPort[k] = p
                                /\ pc[k] = "done" /\ result[k] = "Ok"})
    - Cardinality({k \in Calls : callOp[k] = "delete" /\ callPort[k] = p
                                  /\ pc[k] = "done" /\ result[k] = "Ok"})

\* C13: once the queue has drained, a port is registered exactly when the
\* calls for it that returned Ok net to at least one create, and no
\* create_proxy that returned an error has left its entry registered.
C13_KeyUniquenessLaw ==
    (Drained /\ actor = "loop") =>
        /\ \A p \in Ports : ContainsKey(proxy_map, p) <=> NetOk(p) >= 1
        /\ \A k \in Calls :
              (callOp[k] = "create" /\ pc[k] = "done" /\ result[k] # "Ok")
                  => proxy_map[callPort[k]] # k

\* C14: a wait_for_ready call returns only when the readiness cell holds
\* true, every call that is made returns, and a call that has returned stays
\* returned with what it saw, whatever readiness does afterwards.
C14_WaitForReady ==
    /\ [](\A w \in Waiters :
            (waitOp[w] = "wait_for_ready" /\ waitPc[w] = "done")
                => waitSaw[w] = "true")
    /\ \A w \in Waiters : (waitPc[w] = "waiting") ~> (waitPc[w] = "done")
    /\ [][\A w \in Waiters :
            waitPc[w] = "done" =>
                (waitPc'[w] = "done" /\ waitSaw'[w] = waitSaw[w])]_vars

\* C14 witness: a wait_for_ready that was made before the actor had started
\* (a ready() before it returned false) has returned, and readiness has gone
\* back to false since.
C14_Witness ==
    /\ \E v, w \in Waiters :
        /\ v < w
        /\ waitOp[v] = "ready" /\ waitSaw[v] = "false"
        /\ waitOp[w] = "wait_for_ready" /\ waitPc[w] = "done" /\ waitSaw[w] = "true"
    /\ ~ready
    /\ actor = "exited"

\* C15: the Terminate handler is never suspended in a send on the full
\* request queue while it still has entries to post a DeleteProxy for (the
\* actor is the queue's only consumer, so such a send never completes and
\* the handler never gets to close the queue, drain it and set readiness to
\* false).
C15_TerminateCompletes ==
    actor = "term" => (termTodo = {} \/ Len(queue) < QueueCap)

\* C16: the step in which readiness changes from true to false is taken in
\* a state where no port is registered.
C16_ReadyFalseOnlyWhenEmpty ==
    [][ (ready /\ ~ready') =>
            \A p \in DOMAIN proxy_map : ~ContainsKey(proxy_map, p) ]_vars

\* C16 witness: readiness has gone from true to false, and an entry that
\* was registered when Terminate was processed (no delete_proxy, no rejected
\* create_proxy and no self-delete could have removed it before) is gone.
C16_Witness ==
    /\ actor = "exited"
    /\ ~ready
    /\ \E k \in Calls : listener[k] \in {"aborting", "aborted"}
    /\ \A j \in Calls :
          /\ callOp[j] # "delete"
          /\ result[j] # PROXY_ALREADY_STARTED
          /\ closeSig[j] # "sent"

\* Proxy k is an entry of proxy_map.
Registered(k) == \E p \in DOMAIN proxy_map : proxy_map[p] = k

\* C17: a Proxy that is not (or no longer) an entry of the map has no
\* listener task running, and an entry whose listener task has ended (bind
\* failure or accept-loop exit) does not stay in the map: it is gone once its
\* watcher has run and the queue has drained.
C17_ListenerIffRegistered ==
    \A k \in Calls :
        /\ ~Registered(k) => listener[k] \notin {"spawned", "listening"}
        /\ (Registered(k) /\ watcher[k] # "spawned" /\ queue = <<>>)
              => listener[k] \notin {"bind_failed", "exited"}

\* C18: a listener whose accept loop has exited has sent its port on the
\* close channel, and once its watcher has run and the queue has drained its
\* entry is no longer registered.
C18_CloseSignalEvicts ==
    \A k \in Calls :
        listener[k] = "exited" =>
            /\ closeSig[k] = "sent"
            /\ (watcher[k] # "spawned" /\ queue = <<>>) => ~Registered(k)

\* C19: the relay of a connection has completed only when both of its
\* directional futures have run to their end (copy and shutdown done, or
\* failed): neither was cut short because the other one failed.
C19_RelayAwaitsBoth ==
    \A c \in Conns :
        conn[c] \in {"closed_ok", "closed_err"} =>
            /\ l2r[c] \in {"done", "failed"}
            /\ r2l[c] \in {"done", "failed"}

\* C20: while the relay of an accepted connection is in progress, the
\* listener of the port is in accept(), ready to take a further connection.
C20_AcceptWhileRelaying ==
    \A k \in Calls :
        (listener[k] = "listening" /\ \E c \in Conns : conn[c] = "relaying")
            => InAccept(k)

\* The connection's service has just ended: its outbound connect has failed
\* ("refused") or its relay has ended in error ("closed_err").
ServiceFailed(c) == conn[c] \in {"refused", "closed_err"}

\* C21: the step in which the outbound connect of an accepted connection
\* fails, or its relay ends in error, leaves the listener task running and
\* back in accept(), leaves its entry in the map, and posts and signals
\* nothing.
C21_AcceptLoopResilience ==
    [][ (\E c \in Conns : ~ServiceFailed(c) /\ ServiceFailed(c)') =>
            /\ listener'[Gate] = "listening"
            /\ lpc'[Gate] = "accept"
            /\ proxy_map' = proxy_map
            /\ \E p \in DOMAIN proxy_map : proxy_map'[p] = Gate
            /\ queue' = queue
            /\ closeSig' = closeSig ]_vars

\* C21 witness: one connection's outbound connect failed, a later one's
\* relay ended in error, and the listener is in accept() with its entry
\* registered.
C21_Witness ==
    /\ \E c, d \in Conns : c < d /\ conn[c] = "refused" /\ conn[d] = "closed_err"
    /\ listener[Gate] = "listening"
    /\ lpc[Gate] = "accept"
    /\ Registered(Gate)
    /\ queue = <<>>

\* The actor is about to process a request that names a port.
AtPortRequest ==
    /\ actor = "loop"
    /\ queue # <<>>
    /\ Head(queue).type \in {"ProxyStatus", "CreateProxy", "DeleteProxy"}

\* C22: the step in which the actor processes ProxyStatus, CreateProxy or
\* DeleteProxy for a port p leaves every other port q as it was: registered
\* with the same Proxy or not registered, and the listener task of its Proxy
\* in the same state.
C22_OtherPortsUntouched ==
    [][ (AtPortRequest /\ actor' = "loop" /\ queue' = Tail(queue)) =>
            \A q \in Ports \ {Head(queue).port} :
                /\ proxy_map'[q] = proxy_map[q]
                /\ proxy_map[q] # 0 =>
                      listener'[proxy_map[q]] = listener[proxy_map[q]] ]_vars

\* C22 witness: two Proxies were registered on distinct ports, a
\* delete_proxy for one of them has been processed (its listener is
\* aborted), and the other is registered with its listener listening.
C22_Witness ==
    \E k, i, j \in Calls :
        /\ callOp[k] = "delete" /\ seen[k] = "present"
        /\ callOp[i] = "create" /\ callPort[i] = callPort[k]
        /\ listener[i] \in {"aborting", "aborted"}
        /\ callOp[j] = "create" /\ callPort[j] # callPort[k]
        /\ j < k
        /\ proxy_map[callPort[j]] = j
        /\ listener[j] = "listening"
        /\ ~ContainsKey(proxy_map, callPort[k])

\* The actor is about to process a DeleteProxy(port, None) posted by a
\* watcher on behalf of a terminated listener (the Terminate handler posts
\* its own only after it has set `terminating`).
AtSelfDelete ==
    /\ actor = "loop"
    /\ queue # <<>>
    /\ Head(queue).type = "DeleteProxy"
    /\ Head(queue).reply = NoChan
    /\ ~terminating

\* C23: the step in which the actor processes a self-delete for port p
\* removes no entry but that of a terminated listener: an entry for p whose
\* listener task has not ended (a newer Proxy on the same port) stays
\* registered and its listener is not aborted.
C23_StaleSelfDeleteHarmless ==
    [][ (AtSelfDelete /\ actor' = "loop" /\ queue' = Tail(queue)) =>
            LET p == Head(queue).port
                k == proxy_map[p]
            IN  (k # 0 /\ listener[k] \notin {"exited", "bind_failed"}) =>
                    /\ proxy_map'[p] = k
                    /\ listener'[k] = listener[k] ]_vars

====
